---- MODULE Spec2Model ----
(***************************************************************************)
(* Model of the RLWE key exchange of rlweBTCETH3.js / rlweBTCETH2.js:      *)
(* modular helpers, the in-place butterfly transforms fftForward and       *)
(* fftBackward, generateKeyPair / encapsulate / decapsulate, the byte      *)
(* stream sharedSecretToEntropy feeds to the hash, and the main run.       *)
(*                                                                         *)
(* Two source copies are modelled, selected by the variable copy:          *)
(*   "bigInt"  rlweBTCETH3.js (same text as rlweBTCETH2.js lines 1-126):   *)
(*             helpers on big-integer, no parameter validation;            *)
(*   "native"  rlweBTCETH2.js lines 127-297: helpers on native numbers,    *)
(*             validateParameters() first.                                 *)
(* JavaScript arrays are references: heap holds the arrays, the program    *)
(* variables hold indices into it (0: not bound yet).  The twiddle tables  *)
(* W and W_rev are arrays of their own, filled once at load.               *)
(***************************************************************************)
EXTENDS Integers, Sequences, FiniteSets, TLC

VARIABLES copy, n, q, W, W_rev, pc, heap,
          privateKey, publicKey, randomPoly, ciphertext,
          senderSharedSecret, receiverSharedSecret,
          frame, passes, visited,
          draws, errors, btcEntropy, ethEntropy, printed, test

vars == <<copy, n, q, W, W_rev, pc, heap, privateKey, publicKey, randomPoly, ciphertext,
          senderSharedSecret, receiverSharedSecret, frame, passes, visited,
          draws, errors, btcEntropy, ethEntropy, printed, test>>

(***************************************************************************)
(* Bounds of the model.                                                    *)
(***************************************************************************)
MaxN == 4
MaxQ == 5
MaxCoef == 1
MaxLog2N == 3
MaxEntropyCoef == 12
MaxEntropyLen == 2

Copies == {"bigInt", "native"}

\* The scenario of the specification: n = 4, q = 17, fixed key and randomness.
Scenario == [n |-> 4, q |-> 17, privateKey |-> <<1, 2, 3, 4>>, r |-> <<5, 6, 7, 8>>]

\* The parameter pairs <<n, q>> a run is configured with.
Params == ((0..MaxN) \X (1..MaxQ)) \cup {<<Scenario.n, Scenario.q>>}

(***************************************************************************)
(* JavaScript arithmetic.                                                  *)
(***************************************************************************)
\* x % m of JavaScript, and big-integer's x.mod(m): the remainder takes the
\* sign of the dividend.
JsRem(x, m) == IF x >= 0 THEN x % m ELSE -((-x) % m)

RECURSIVE BitAnd(_, _)
\* a & b on non-negative integers.
BitAnd(a, b) ==
  IF a = 0 \/ b = 0 THEN 0
  ELSE (IF a % 2 = 1 /\ b % 2 = 1 THEN 1 ELSE 0) + 2 * BitAnd(a \div 2, b \div 2)

\* x >> 1 and x << 1 on the small non-negative integers of the model.
Shr1(x) == x \div 2
Shl1(x) == 2 * x

(***************************************************************************)
(* Parameter validation (rlweBTCETH2.js, validated copy).                  *)
(***************************************************************************)
RECURSIVE isPrimeFrom(_, _)
\* the loop of isPrime: for (let i = 2; i * i <= num; i++)
isPrimeFrom(num, i) ==
  IF i * i <= num
  THEN IF JsRem(num, i) = 0 THEN FALSE ELSE isPrimeFrom(num, i + 1)
  ELSE TRUE

isPrime(num) == IF num < 2 THEN FALSE ELSE isPrimeFrom(num, 2)

\* The third check of validateParameters throws when this holds.
qTooSmall(nn, qq) == qq < nn

\* The first check of validateParameters throws when this holds.
nNotPowerOfTwo(nn) == nn <= 0 \/ BitAnd(nn, nn - 1) # 0

\* TRUE when validateParameters() throws.
validateParametersThrows(nn, qq) ==
  \/ nNotPowerOfTwo(nn)
  \/ ~isPrime(qq)
  \/ qTooSmall(nn, qq)

(***************************************************************************)
(* Modular helpers, per source copy.                                       *)
(***************************************************************************)
modBigInt(x, mm) == JsRem(x, mm)
modNative(x, mm) == JsRem(JsRem(x, mm) + mm, mm)

mod(x, mm) == IF copy = "bigInt" THEN modBigInt(x, mm) ELSE modNative(x, mm)
mulMod(a, b, mm) == mod(a * b, mm)
addMod(a, b, mm) == mod(a + b, mm)
subMod(a, b, mm) == mod(a - b, mm)

\* The initialisers of the twiddle tables W and W_rev; JavaScript index k is
\* TLA+ index k + 1.
InitW == [k \in 1..n |-> JsRem(k, q)]
InitW_rev == [k \in 1..n |-> JsRem(q - (k - 1) - 1, q)]

(***************************************************************************)
(* Arrays on the heap.                                                     *)
(***************************************************************************)
\* Slice without the copy: the caller's array itself.
SliceAliased(h, r) == [heap |-> h, ref |-> r]

\* arr.slice(): a new array with the same elements.
Slice(h, r) == [heap |-> Append(h, h[r]), ref |-> Len(h) + 1]

\* a.map((val, i) => mulMod(val, b[i], q)): a new array.
MapMul(h, a, b) ==
  [heap |-> Append(h, [k \in 1..Len(h[a]) |-> mulMod(h[a][k], h[b][k], q)]),
   ref |-> Len(h) + 1]

\* The shared secret of encapsulate taken from the transformed r.
EncapsulateSharedSecretTransformed(h) == MapMul(h, ciphertext, publicKey)

\* randomPoly.map((val, i) => mulMod(val, publicKey[i], q)) of encapsulate.
EncapsulateSharedSecret(h) == MapMul(h, randomPoly, publicKey)

\* Math.floor(Math.random() * q): the values the model draws.
Samples(qq) == {v \in 0..(qq - 1) : v < MaxCoef \/ v = qq - 1}

\* Array.from({ length: n }, () => Math.floor(Math.random() * q))
PolySamples(nn, qq, fixed) ==
  [1..nn -> Samples(qq)]
    \cup (IF nn = Scenario.n /\ qq = Scenario.q THEN {fixed} ELSE {})

(***************************************************************************)
(* The transforms.  A frame holds the locals of the running transform;     *)
(* loc is "body" when the next step is a butterfly at (i, i + m) and       *)
(* "exit" when the outer loop's condition has failed.                      *)
(***************************************************************************)
NoFrame == [dir |-> "none", x |-> 0, m |-> 0, j |-> 0, i |-> 0, step |-> 0,
            index |-> 0, loc |-> "none", ret |-> "none"]

\* The outer loop's condition: m >= 1 (forward), m < n (backward).
PassCond(dir, mm) == IF dir = "forward" THEN mm >= 1 ELSE mm < n

\* The outer loop's update of m and of step.
NextM(dir, mm) == IF dir = "forward" THEN Shr1(mm) ELSE Shl1(mm)
NextStep(dir, s) == IF dir = "forward" THEN Shl1(s) ELSE Shr1(s)

\* The call: the initialisers of step and m, and the first loop tests.
FftEnter(dir, xref, ret) ==
  LET step0 == IF dir = "forward" THEN 1 ELSE Shr1(n)
      m0 == IF dir = "forward" THEN Shr1(n) ELSE 1
  IN  [dir |-> dir, x |-> xref, m |-> m0, j |-> 0, i |-> 0, step |-> step0,
       index |-> 0, loc |-> IF PassCond(dir, m0) THEN "body" ELSE "exit",
       ret |-> ret]

\* The loop body on array arr (JavaScript positions i and i + m).
ButterflyForward(arr, i, mm, index) ==
  LET t0 == addMod(arr[i + 1], arr[i + mm + 1], q)
      t1 == mulMod(subMod(arr[i + 1], arr[i + mm + 1], q), W[index + 1], q)
  IN  [arr EXCEPT ![i + 1] = t0, ![i + mm + 1] = t1]

ButterflyBackward(arr, i, mm, index) ==
  LET t0 == arr[i + 1]
      t1 == mulMod(arr[i + mm + 1], W_rev[index + 1], q)
  IN  [arr EXCEPT ![i + 1] = addMod(t0, t1, q), ![i + mm + 1] = subMod(t0, t1, q)]

ButterflyOn(f, arr) ==
  IF f.dir = "forward" THEN ButterflyForward(arr, f.i, f.m, f.index)
  ELSE ButterflyBackward(arr, f.i, f.m, f.index)

\* Advance with the column counter stepping by two.
AdvanceSkipColumn(f) ==
  LET i2 == f.i + Shl1(f.m)
      index2 == mod(f.index + (n - f.step), n)
      j2 == f.j + 2
      step2 == NextStep(f.dir, f.step)
      m2 == NextM(f.dir, f.m)
  IN  IF i2 < n THEN [f EXCEPT !.i = i2]
      ELSE IF j2 < f.m THEN [f EXCEPT !.index = index2, !.j = j2, !.i = j2]
      ELSE IF PassCond(f.dir, m2)
      THEN [f EXCEPT !.step = step2, !.m = m2, !.index = 0, !.j = 0, !.i = 0]
      ELSE [f EXCEPT !.step = step2, !.m = m2, !.index = index2, !.j = j2,
                     !.i = i2, !.loc = "exit"]

\* Advance with the twiddle index not reduced modulo n.
AdvanceNoIndexWrap(f) ==
  LET i2 == f.i + Shl1(f.m)
      index2 == f.index + (n - f.step)
      j2 == f.j + 1
      step2 == NextStep(f.dir, f.step)
      m2 == NextM(f.dir, f.m)
  IN  IF i2 < n THEN [f EXCEPT !.i = i2]
      ELSE IF j2 < f.m THEN [f EXCEPT !.index = index2, !.j = j2, !.i = j2]
      ELSE IF PassCond(f.dir, m2)
      THEN [f EXCEPT !.step = step2, !.m = m2, !.index = 0, !.j = 0, !.i = 0]
      ELSE [f EXCEPT !.step = step2, !.m = m2, !.index = index2, !.j = j2,
                     !.i = i2, !.loc = "exit"]

\* The loop updates and tests that follow one execution of the body.
Advance(f) ==
  LET i2 == f.i + Shl1(f.m)
      index2 == mod(f.index + (n - f.step), n)
      j2 == f.j + 1
      step2 == NextStep(f.dir, f.step)
      m2 == NextM(f.dir, f.m)
  IN  IF i2 < n THEN [f EXCEPT !.i = i2]
      ELSE IF j2 < f.m THEN [f EXCEPT !.index = index2, !.j = j2, !.i = j2]
      ELSE IF PassCond(f.dir, m2)
      THEN [f EXCEPT !.step = step2, !.m = m2, !.index = 0, !.j = 0, !.i = 0]
      ELSE [f EXCEPT !.step = step2, !.m = m2, !.index = index2, !.j = j2,
                     !.i = i2, !.loc = "exit"]

\* TRUE when the body at f starts a pass of the outer loop.
PassStart(f) == f.j = 0 /\ f.i = 0

RECURSIVE RunFrom(_, _)
\* The array a transform leaves, run to its end from frame f on array arr
\* (all positions in bounds).
RunFrom(f, arr) ==
  IF f.loc = "exit" THEN arr ELSE RunFrom(Advance(f), ButterflyOn(f, arr))

fftForward(arr) == RunFrom(FftEnter("forward", 0, "none"), arr)
fftBackward(arr) == RunFrom(FftEnter("backward", 0, "none"), arr)

(***************************************************************************)
(* Entropy derivation: the bytes sharedSecretToEntropy feeds to the hash.  *)
(***************************************************************************)
DigitChar(d) == <<"0", "1", "2", "3", "4", "5", "6", "7", "8", "9">>[d + 1]

RECURSIVE Digits(_)
\* The decimal digits of v >= 0, most significant first.
Digits(v) ==
  IF v < 10 THEN <<DigitChar(v)>> ELSE Digits(v \div 10) \o <<DigitChar(v % 10)>>

\* val.toString()
toString(v) == IF v < 0 THEN <<"-">> \o Digits(-v) ELSE Digits(v)

RECURSIVE HashInput(_)
\* sharedSecret.forEach((val) => hash.update(Buffer.from(val.toString()))):
\* the hash digests the concatenation of the chunks it is updated with.
HashInput(arr) ==
  IF arr = <<>> THEN <<>> ELSE toString(Head(arr)) \o HashInput(Tail(arr))

sharedSecretToEntropy(arr) == HashInput(arr)

(***************************************************************************)
(* The main run.                                                           *)
(***************************************************************************)
InitCommon ==
  /\ copy \in Copies
  /\ heap = <<>>
  /\ privateKey = 0 /\ publicKey = 0 /\ randomPoly = 0 /\ ciphertext = 0
  /\ senderSharedSecret = 0 /\ receiverSharedSecret = 0
  /\ frame = NoFrame /\ passes = 0 /\ visited = <<>>
  /\ draws = 0 /\ errors = 0
  /\ btcEntropy = <<>> /\ ethEntropy = <<>> /\ printed = {}

\* The first statement of the try block: validateParameters() in the
\* validated copy, generateKeyPair() in the other.
Init ==
  /\ InitCommon
  /\ \E p \in Params : n = p[1] /\ q = p[2]
  /\ W = InitW /\ W_rev = InitW_rev
  /\ pc = IF copy = "native" THEN "validateParameters" ELSE "generateKeyPair"
  /\ test = [kind |-> "main"]

\* validateParameters(); a throw is caught by main's catch, which reports it.
ValidateParameters ==
  /\ pc = "validateParameters"
  /\ IF validateParametersThrows(n, q)
     THEN pc' = "error" /\ errors' = errors + 1
     ELSE pc' = "generateKeyPair" /\ errors' = errors
  /\ UNCHANGED <<W, W_rev, copy, n, q, heap, privateKey, publicKey, randomPoly, ciphertext,
                 senderSharedSecret, receiverSharedSecret, frame, passes, visited,
                 draws, btcEntropy, ethEntropy, printed, test>>

\* generateKeyPair() up to its call of fftForward(publicKey).
GenerateKeyPair ==
  /\ pc = "generateKeyPair"
  /\ \E sk \in PolySamples(n, q, Scenario.privateKey) :
       LET h1 == Append(heap, sk)
           s == Slice(h1, Len(h1))
       IN  /\ heap' = s.heap
           /\ privateKey' = Len(h1)
           /\ publicKey' = s.ref
           /\ frame' = FftEnter("forward", s.ref, "encapsulate")
  /\ draws' = draws + n
  /\ pc' = "fft" /\ passes' = 0 /\ visited' = <<>>
  /\ UNCHANGED <<W, W_rev, copy, n, q, randomPoly, ciphertext, senderSharedSecret,
                 receiverSharedSecret, errors, btcEntropy, ethEntropy, printed, test>>

\* One execution of the innermost loop body of the running transform, with
\* the loop updates and tests that follow it.
Butterfly ==
  /\ pc = "fft" /\ frame.loc = "body"
  /\ frame.i + frame.m < n
  /\ heap' = [heap EXCEPT ![frame.x] = ButterflyOn(frame, @)]
  /\ frame' = Advance(frame)
  /\ passes' = IF PassStart(frame) THEN passes + 1 ELSE passes
  /\ visited' = (IF PassStart(frame) THEN <<>> ELSE visited)
                   \o <<frame.i, frame.i + frame.m>>
  /\ UNCHANGED <<W, W_rev, copy, n, q, pc, privateKey, publicKey, randomPoly, ciphertext,
                 senderSharedSecret, receiverSharedSecret, draws, errors,
                 btcEntropy, ethEntropy, printed, test>>

\* x[i + m] is undefined (n not a power of two): in fftForward,
\* bigInt(x[i]).add(undefined) throws a TypeError, which main's catch reports.
\* (fftBackward reads past the end only for n >= 6, where fftForward does not
\* throw first.)
ButterflyThrows ==
  /\ pc = "fft" /\ frame.loc = "body"
  /\ frame.i + frame.m >= n
  /\ copy = "bigInt" /\ frame.dir = "forward"
  /\ pc' = "error" /\ errors' = errors + 1
  /\ UNCHANGED <<W, W_rev, copy, n, q, heap, privateKey, publicKey, randomPoly, ciphertext,
                 senderSharedSecret, receiverSharedSecret, frame, passes, visited,
                 draws, btcEntropy, ethEntropy, printed, test>>

\* The outer loop's condition has failed: the transform returns.
FftReturn ==
  /\ pc = "fft" /\ frame.loc = "exit"
  /\ pc' = frame.ret
  /\ UNCHANGED <<W, W_rev, copy, n, q, heap, privateKey, publicKey, randomPoly, ciphertext,
                 senderSharedSecret, receiverSharedSecret, frame, passes, visited,
                 draws, errors, btcEntropy, ethEntropy, printed, test>>

\* encapsulate(publicKey) up to its call of fftForward(ciphertext).
Encapsulate ==
  /\ pc = "encapsulate"
  /\ \E r \in PolySamples(n, q, Scenario.r) :
       LET h1 == Append(heap, r)
           s == Slice(h1, Len(h1))
       IN  /\ heap' = s.heap
           /\ randomPoly' = Len(h1)
           /\ ciphertext' = s.ref
           /\ frame' = FftEnter("forward", s.ref, "encapsulateReturn")
  /\ draws' = draws + n
  /\ pc' = "fft" /\ passes' = 0 /\ visited' = <<>>
  /\ UNCHANGED <<W, W_rev, copy, n, q, privateKey, publicKey, senderSharedSecret,
                 receiverSharedSecret, errors, btcEntropy, ethEntropy, printed, test>>

\* The map of the shared secret and the return of encapsulate.
EncapsulateReturn ==
  /\ pc = "encapsulateReturn"
  /\ LET s == EncapsulateSharedSecret(heap)
     IN  heap' = s.heap /\ senderSharedSecret' = s.ref
  /\ pc' = "decapsulate"
  /\ UNCHANGED <<W, W_rev, copy, n, q, privateKey, publicKey, randomPoly, ciphertext,
                 receiverSharedSecret, frame, passes, visited, draws, errors,
                 btcEntropy, ethEntropy, printed, test>>

\* decapsulate(ciphertext, privateKey) up to its call of
\* fftBackward(sharedSecret); the transformed array is what it returns.
Decapsulate ==
  /\ pc = "decapsulate"
  /\ LET s == MapMul(heap, ciphertext, privateKey)
     IN  /\ heap' = s.heap
         /\ receiverSharedSecret' = s.ref
         /\ frame' = FftEnter("backward", s.ref, "generateBTCKeyPair")
  /\ pc' = "fft" /\ passes' = 0 /\ visited' = <<>>
  /\ UNCHANGED <<W, W_rev, copy, n, q, privateKey, publicKey, randomPoly, ciphertext,
                 senderSharedSecret, draws, errors, btcEntropy, ethEntropy,
                 printed, test>>

\* generateBTCKeyPair(receiverSharedSecret) and the printing of its result.
GenerateBTCKeyPair ==
  /\ pc = "generateBTCKeyPair"
  /\ btcEntropy' = sharedSecretToEntropy(heap[receiverSharedSecret])
  /\ printed' = printed \cup {"btc"}
  /\ pc' = "generateETHKeyPair"
  /\ UNCHANGED <<W, W_rev, copy, n, q, heap, privateKey, publicKey, randomPoly, ciphertext,
                 senderSharedSecret, receiverSharedSecret, frame, passes, visited,
                 draws, errors, ethEntropy, test>>

\* generateETHKeyPair(receiverSharedSecret) and the printing of its result.
GenerateETHKeyPair ==
  /\ pc = "generateETHKeyPair"
  /\ ethEntropy' = sharedSecretToEntropy(heap[receiverSharedSecret])
  /\ printed' = printed \cup {"eth"}
  /\ pc' = "done"
  /\ UNCHANGED <<W, W_rev, copy, n, q, heap, privateKey, publicKey, randomPoly, ciphertext,
                 senderSharedSecret, receiverSharedSecret, frame, passes, visited,
                 draws, errors, btcEntropy, test>>

Next ==
  \/ ValidateParameters
  \/ GenerateKeyPair
  \/ Butterfly
  \/ ButterflyThrows
  \/ FftReturn
  \/ Encapsulate
  \/ EncapsulateReturn
  \/ Decapsulate
  \/ GenerateBTCKeyPair
  \/ GenerateETHKeyPair

Spec == Init /\ [][Next]_vars

(***************************************************************************)
(* Vocabulary of the properties.                                           *)
(***************************************************************************)
IsPowerOfTwo(nn) == \E k \in 0..nn : 2 ^ k = nn
IsPrimeNumber(p) == p > 1 /\ \A d \in 2..(p - 1) : p % d # 0
ValidParameters(nn, qq) == IsPowerOfTwo(nn) /\ IsPrimeNumber(qq) /\ qq > nn

RECURSIVE Log2(_)
Log2(nn) == IF nn <= 1 THEN 0 ELSE 1 + Log2(nn \div 2)

InRange(arr) == Len(arr) = n /\ \A k \in 1..Len(arr) : arr[k] \in 0..(q - 1)

\* The positions of the running program.
InEncapsulate ==
  pc \in {"encapsulate", "encapsulateReturn"}
    \/ (pc = "fft" /\ frame.ret = "encapsulateReturn")
InDecapsulate == pc = "decapsulate" \/ (pc = "fft" /\ frame.ret = "generateBTCKeyPair")
AfterDecapsulate == pc \in {"generateBTCKeyPair", "generateETHKeyPair", "done"}
AfterGenerateKeyPair == InEncapsulate \/ InDecapsulate \/ AfterDecapsulate
AfterEncapsulate == InDecapsulate \/ AfterDecapsulate

(***************************************************************************)
(* The transforms on their own: fftForward on a copy of x, then            *)
(* fftBackward on the result.                                              *)
(***************************************************************************)
TransformParams ==
  {p \in {<<2 ^ k, qq>> : k \in 0..MaxLog2N, qq \in (1..MaxQ) \cup {Scenario.q}} :
     ValidParameters(p[1], p[2])}

\* Every polynomial over [0, q) where that is few, samples of them otherwise.
TransformInputs(nn, qq) ==
  IF nn <= MaxN /\ qq <= MaxQ THEN [1..nn -> 0..(qq - 1)]
  ELSE {[k \in 1..nn |-> v] : v \in Samples(qq)}
         \cup {[k \in 1..nn |-> k % qq]}
         \cup (IF nn = Scenario.n /\ qq = Scenario.q
               THEN {Scenario.privateKey, Scenario.r} ELSE {})

InitTransform ==
  /\ InitCommon
  /\ \E p \in TransformParams : n = p[1] /\ q = p[2]
  /\ W = InitW /\ W_rev = InitW_rev
  /\ pc = "applyForward"
  /\ test = [kind |-> "transform", x |-> <<>>, work |-> 0]

ApplyForward ==
  /\ pc = "applyForward"
  /\ \E x \in TransformInputs(n, q) :
       LET h1 == Append(heap, x)
           s == Slice(h1, Len(h1))
       IN  /\ heap' = s.heap
           /\ test' = [test EXCEPT !.x = x, !.work = s.ref]
           /\ frame' = FftEnter("forward", s.ref, "applyBackward")
  /\ pc' = "fft" /\ passes' = 0 /\ visited' = <<>>
  /\ UNCHANGED <<W, W_rev, copy, n, q, privateKey, publicKey, randomPoly, ciphertext,
                 senderSharedSecret, receiverSharedSecret, draws, errors,
                 btcEntropy, ethEntropy, printed>>

ApplyBackward ==
  /\ pc = "applyBackward"
  /\ frame' = FftEnter("backward", test.work, "transformDone")
  /\ pc' = "fft" /\ passes' = 0 /\ visited' = <<>>
  /\ UNCHANGED <<W, W_rev, copy, n, q, heap, privateKey, publicKey, randomPoly, ciphertext,
                 senderSharedSecret, receiverSharedSecret, draws, errors,
                 btcEntropy, ethEntropy, printed, test>>

NextTransform ==
  \/ ApplyForward
  \/ Butterfly
  \/ FftReturn
  \/ ApplyBackward

SpecTransform == InitTransform /\ [][NextTransform]_vars

(***************************************************************************)
(* The modular helpers on their own.                                       *)
(***************************************************************************)
InitHelpers ==
  /\ InitCommon
  /\ n = 0
  /\ q \in (1..MaxQ) \cup {Scenario.q}
  /\ W = InitW /\ W_rev = InitW_rev
  /\ pc = "applyHelpers"
  /\ \E a \in 0..(q - 1), b \in 0..(q - 1) :
       test = [kind |-> "helpers", a |-> a, b |-> b, add |-> 0, sub |-> 0, mul |-> 0]

ApplyHelpers ==
  /\ pc = "applyHelpers"
  /\ test' = [test EXCEPT !.add = addMod(test.a, test.b, q),
                          !.sub = subMod(test.a, test.b, q),
                          !.mul = mulMod(test.a, test.b, q)]
  /\ pc' = "helpersDone"
  /\ UNCHANGED <<W, W_rev, copy, n, q, heap, privateKey, publicKey, randomPoly, ciphertext,
                 senderSharedSecret, receiverSharedSecret, frame, passes, visited,
                 draws, errors, btcEntropy, ethEntropy, printed>>

NextHelpers == ApplyHelpers

SpecHelpers == InitHelpers /\ [][NextHelpers]_vars

(***************************************************************************)
(* Entropy derivation on its own: two shared secrets of one length.        *)
(***************************************************************************)
\* The values a coefficient of a shared secret takes: the bigInt helpers
\* also return negative ones.
EntropyCoefs == IF copy = "bigInt" THEN (-1)..MaxEntropyCoef ELSE 0..MaxEntropyCoef

InitEntropy ==
  /\ InitCommon
  /\ n \in 1..MaxEntropyLen
  /\ q = MaxEntropyCoef + 1
  /\ W = InitW /\ W_rev = InitW_rev
  /\ pc = "applyEntropy"
  /\ \E a \in [1..n -> EntropyCoefs], b \in [1..n -> EntropyCoefs] :
       test = [kind |-> "entropy", a |-> a, b |-> b]

ApplyEntropy ==
  /\ pc = "applyEntropy"
  /\ btcEntropy' = sharedSecretToEntropy(test.a)
  /\ ethEntropy' = sharedSecretToEntropy(test.b)
  /\ pc' = "entropyDone"
  /\ UNCHANGED <<W, W_rev, copy, n, q, heap, privateKey, publicKey, randomPoly, ciphertext,
                 senderSharedSecret, receiverSharedSecret, frame, passes, visited,
                 draws, errors, printed, test>>

NextEntropy == ApplyEntropy

SpecEntropy == InitEntropy /\ [][NextEntropy]_vars

(***************************************************************************)
(* Properties.                                                             *)
(***************************************************************************)

\* C1: round-trip law.  For valid parameters and every length-n x over
\* [0, q), fftBackward applied to fftForward of a copy of x yields x at every
\* index.  (Checked under SpecTransform, whose parameters are all valid.)
RoundTripLaw ==
  pc = "transformDone" =>
    /\ Len(heap[test.work]) = Len(test.x)
    /\ \A k \in 1..n : heap[test.work][k] = test.x[k]

\* C2: protocol agreement.  For valid parameters, every private key and
\* every encapsulation randomness, the sequence decapsulate returns equals
\* the sharedSecret encapsulate returned, at every index.
ProtocolAgreement ==
  (ValidParameters(n, q) /\ AfterDecapsulate) =>
    \A k \in 1..n : heap[receiverSharedSecret][k] = heap[senderSharedSecret][k]

\* C3: validateParameters accepts (n, q) if and only if n is a positive
\* power of two, q is prime and q > n; every other pair ends in an error.
ValidationIff ==
  (copy = "native" /\ pc # "validateParameters") =>
    ((pc # "error") <=> ValidParameters(n, q))

\* C4: the modular helpers are closed.  For all a, b in [0, q), addMod,
\* subMod and mulMod return a value in [0, q), in every source copy.
HelpersClosed ==
  pc = "helpersDone" =>
    /\ test.add \in 0..(q - 1)
    /\ test.sub \in 0..(q - 1)
    /\ test.mul \in 0..(q - 1)

\* C5: polynomial range invariant.  With inputs in [0, q)^n, after every
\* butterfly of fftForward and fftBackward and in every sequence returned by
\* generateKeyPair, encapsulate and decapsulate, the sequence has length n and
\* every element lies in [0, q).
RangeInvariant ==
  ValidParameters(n, q) => \A r \in 1..Len(heap) : InRange(heap[r])

\* C6: fail fast.  Validation precedes every random draw, and a run with
\* invalid parameters ends with exactly one reported error, having drawn no
\* randomness and produced no key pair, shared secret, entropy or address.
FailFast ==
  /\ ~ValidParameters(n, q) =>
       /\ draws = 0 /\ heap = <<>> /\ printed = {}
       /\ privateKey = 0 /\ publicKey = 0
       /\ senderSharedSecret = 0 /\ receiverSharedSecret = 0
       /\ btcEntropy = <<>> /\ ethEntropy = <<>>
       /\ errors <= 1
       /\ pc # "done"
       /\ (pc = "error" => errors = 1)

\* C7: non-aliasing.  No step of decapsulate changes the ciphertext or the
\* privateKey array, no step of encapsulate changes the publicKey array, no
\* step of the forward transform in generateKeyPair changes the privateKey
\* array, and every transform is called on an array allocated by its caller
\* in that call (a fresh copy).
NonAliasing ==
  [][/\ (InDecapsulate /\ pc' # "error") =>
          /\ heap'[ciphertext] = heap[ciphertext]
          /\ heap'[privateKey] = heap[privateKey]
     /\ (InEncapsulate /\ pc' # "error") => heap'[publicKey] = heap[publicKey]
     /\ (pc = "fft" /\ frame.ret = "encapsulate") =>
          heap'[privateKey] = heap[privateKey]
     /\ (pc # "fft" /\ pc' = "fft") =>
          /\ frame'.x \notin 1..Len(heap)
          /\ frame'.x \notin {privateKey', randomPoly'}
          /\ \A r \in 1..Len(heap) : heap'[r] = heap[r]
    ]_vars

\* The transforms and the maps have acted and changed their own buffers.
NonAliasingWitness ==
  /\ pc = "done" /\ ValidParameters(n, q)
  /\ heap[publicKey] # heap[privateKey]
  /\ heap[ciphertext] # heap[randomPoly]
  /\ heap[receiverSharedSecret] # heap[ciphertext]

\* C8: generateKeyPair returns publicKey equal to the forward transform of
\* privateKey, element by element; encapsulate returns ciphertext equal to the
\* forward transform of its sampled r, and sharedSecret equal to the pointwise
\* product mod q of the untransformed r with the given publicKey.
KeyPairAndEncapsulation ==
  /\ AfterGenerateKeyPair =>
       /\ Len(heap[publicKey]) = n
       /\ heap[publicKey] = fftForward(heap[privateKey])
  /\ (pc = "encapsulateReturn" \/ AfterEncapsulate) =>
       heap[ciphertext] = fftForward(heap[randomPoly])
  /\ AfterEncapsulate =>
       /\ Len(heap[senderSharedSecret]) = n
       /\ \A k \in 1..n :
            heap[senderSharedSecret][k]
              = mulMod(heap[randomPoly][k], heap[publicKey][k], q)

\* encapsulate has returned, with a transform that changed r, after
\* generateKeyPair returned a transformed key.
KeyPairAndEncapsulationWitness ==
  /\ AfterEncapsulate /\ ValidParameters(n, q) /\ n = Scenario.n
  /\ heap[publicKey] # heap[privateKey]
  /\ heap[ciphertext] # heap[randomPoly]
  /\ \E k \in 1..n : heap[senderSharedSecret][k] # 0

\* C9: entropy derivation separates inputs.  The bytes fed to the hash are
\* determined by the coefficient sequence alone, and two shared secrets whose
\* coefficient sequences differ feed different bytes to the hash.
EntropySeparates ==
  pc = "entropyDone" =>
    /\ (test.a = test.b => btcEntropy = ethEntropy)
    /\ (test.a # test.b => btcEntropy # ethEntropy)

\* C10: butterfly schedule and termination.  For n a positive power of two,
\* each transform ends after exactly log2(n) passes; within a pass the visited
\* pairs (i, i + m) are disjoint and cover 0..n-1 exactly once (n/2
\* butterflies), and m * step = n/2 throughout every pass.  The transform
\* never stops before its exit, and the pass count and the positions visited
\* in a pass, which every butterfly increases, are bounded.
ButterflySchedule ==
  (pc = "fft" /\ IsPowerOfTwo(n)) =>
    /\ frame.loc = "body" => frame.m * frame.step = Shr1(n)
    /\ frame.loc = "body" => frame.i + frame.m < n
    /\ frame.loc \in {"body", "exit"}
    /\ passes <= Log2(n)
    /\ Len(visited) <= n
    /\ \A a \in 1..Len(visited) :
         /\ visited[a] \in 0..(n - 1)
         /\ \A b \in 1..Len(visited) : a # b => visited[a] # visited[b]
    /\ \A a \in 1..Len(visited) :
         a % 2 = 1 =>
           /\ a + 1 <= Len(visited)
           /\ visited[a + 1] > visited[a]
           /\ (frame.loc = "body" /\ ~PassStart(frame)) =>
                visited[a + 1] = visited[a] + frame.m
    /\ (passes > 0 /\ (PassStart(frame) \/ frame.loc = "exit")) =>
         /\ Len(visited) = n
         /\ {visited[a] : a \in 1..Len(visited)} = 0..(n - 1)
    /\ frame.loc = "exit" => passes = Log2(n)

\* A backward transform of the largest n has ended, after its last pass.
ButterflyScheduleWitness ==
  /\ pc = "fft" /\ frame.loc = "exit" /\ frame.dir = "backward"
  /\ n = 2 ^ MaxLog2N /\ passes = MaxLog2N /\ Len(visited) = n

\* C11: index safety.  For n a positive power of two, at every butterfly of
\* fftForward and fftBackward the twiddle index satisfies 0 <= index < n and
\* the accessed positions satisfy 0 <= i < i + m <= n - 1, so every read and
\* write of x, W and W_rev is inside the array; and the twiddle tables W and
\* W_rev hold in every state the values they were initialised with.
IndexSafety ==
  /\ W = InitW /\ W_rev = InitW_rev
  /\ (pc = "fft" /\ frame.loc = "body" /\ IsPowerOfTwo(n)) =>
       /\ 0 <= frame.index /\ frame.index < n
       /\ 0 <= frame.i /\ frame.i < frame.i + frame.m
       /\ frame.i + frame.m <= n - 1
       /\ frame.index + 1 \in DOMAIN W
       /\ frame.index + 1 \in DOMAIN W_rev
       /\ frame.i + 1 \in DOMAIN heap[frame.x]
       /\ frame.i + frame.m + 1 \in DOMAIN heap[frame.x]

\* A butterfly of the largest n reads the last entry of a twiddle table.
IndexSafetyWitness ==
  /\ pc = "fft" /\ frame.loc = "body"
  /\ n = 2 ^ MaxLog2N /\ frame.index = n - 1 /\ frame.j > 0

====
